---------------------------- MODULE Spec2Model ----------------------------
(***************************************************************************)
(* Model of src/src/history.rs of the ebur128 crate: the log-scale lookup  *)
(* tables, the Histogram and Queue storage strategies and the History      *)
(* dispatcher with its gating / loudness-range algorithms.                 *)
(*                                                                         *)
(* Numbers.  The source computes in f64.  Here an energy held in a queue   *)
(* or passed to add is an integer, and every derived quantity (a mean, a   *)
(* threshold) is an exact rational <<n, d>> with d > 0, compared by cross  *)
(* multiplication; rounding of f64 is not modelled.                        *)
(*                                                                         *)
(* Tables.  The source's tables are geometric:                             *)
(*    boundaries[i]   = 10^((i/10 - 70    + 0.691)/10)                     *)
(*    energies[i]     = 10^((i/10 - 69.95 + 0.691)/10)                     *)
(* so energies[i] = boundaries[i] * q and boundaries[i+1] = energies[i] * q*)
(* with q = 10^0.005, for i in 0..999.  TLC's integers are 32 bits wide,   *)
(* so the model keeps the same geometric shape with the integer half step  *)
(* HalfStep in place of 10^0.005, the integer Floor in place of            *)
(* boundaries[0], and NumBuckets buckets in place of 1000.                 *)
(***************************************************************************)
EXTENDS Integers, Sequences, FiniteSets

VARIABLES s, last, log,
          ONCE, HISTOGRAM_ENERGIES, HISTOGRAM_ENERGY_BOUNDARIES, thread, runs

\* the Once guard and the two static tables, with the threads that call
\* History::new and the number of times the filling closure was entered
shared == <<ONCE, HISTOGRAM_ENERGIES, HISTOGRAM_ENERGY_BOUNDARIES, thread, runs>>

vars == <<s, last, log, shared>>

(***************************************************************************)
(* Bounds of the model                                                     *)
(***************************************************************************)
\* number of histogram buckets (1000 in the source, history.rs:29)
NumBuckets == 5
\* largest capacity passed to History::new / set_max_size
MaxCap == 2
\* largest number of stored samples of one History before add is disabled
MaxLen == 3
\* SpecMulti: largest weight of the list of History instances, the number
\* of instances plus the number of samples they hold
MaxWeight == 4
\* SpecInit: number of threads calling History::new
NumThreads == 2

(***************************************************************************)
(* Exact rationals                                                         *)
(***************************************************************************)
Rat(n, d) == <<n, d>>

RatLt(a, b) == a[1] * b[2] < b[1] * a[2]

RatGe(a, b) == a[1] * b[2] >= b[1] * a[2]

RatGt(a, b) == a[1] * b[2] > b[1] * a[2]

RatEq(a, b) == a[1] * b[2] = b[1] * a[2]

(***************************************************************************)
(* Lookup tables (init_histogram)                                          *)
(***************************************************************************)
\* boundaries[0], the absolute silence floor
Floor == 2

\* the factor between a boundary and its bucket's representative energy
HalfStep == 2

RECURSIVE Pow(_, _)
Pow(b, k) == IF k = 0 THEN 1 ELSE b * Pow(b, k - 1)

\* HISTOGRAM_ENERGY_BOUNDARIES: NumBuckets + 1 bucket edges
histogram_energy_boundaries == [i \in 0..NumBuckets |-> Floor * Pow(HalfStep, 2 * i)]

\* HISTOGRAM_ENERGIES: NumBuckets representative energies
histogram_energies == [i \in 0..(NumBuckets - 1) |-> Floor * Pow(HalfStep, 2 * i + 1)]

\* the statics as the program starts: [0.0; 1000] and [0.0; 1001]
ZeroEnergies == [i \in 0..(NumBuckets - 1) |-> 0]

ZeroBoundaries == [i \in 0..NumBuckets |-> 0]

Threads == 1..NumThreads

\* a thread outside History::new that owns no History and has read nothing
Idle == [pc |-> "idle", i |-> 0, has |-> FALSE, waited |-> FALSE, read |-> "none"]

\* both tables hold every value the closure writes and ONCE is complete
Initialized ==
    /\ ONCE = "complete"
    /\ HISTOGRAM_ENERGIES = histogram_energies
    /\ HISTOGRAM_ENERGY_BOUNDARIES = histogram_energy_boundaries

\* the statics before the first History::new
Uninitialized ==
    /\ ONCE = "incomplete"
    /\ HISTOGRAM_ENERGIES = ZeroEnergies
    /\ HISTOGRAM_ENERGY_BOUNDARIES = ZeroBoundaries
    /\ runs = 0
    /\ thread = [t \in Threads |-> Idle]

\* the statics once a first History::new has returned on a single thread
AfterFirstNew ==
    /\ Initialized
    /\ runs = 1
    /\ thread = [t \in Threads |-> Idle]

\* init_histogram called while no other thread is inside it: the closure
\* runs if ONCE is incomplete and is skipped otherwise
init_histogram_alone ==
    /\ ONCE' = "complete"
    /\ HISTOGRAM_ENERGIES' = histogram_energies
    /\ HISTOGRAM_ENERGY_BOUNDARIES' = histogram_energy_boundaries
    /\ runs' = IF ONCE = "incomplete" THEN runs + 1 ELSE runs
    /\ UNCHANGED thread

(***************************************************************************)
(* find_histogram_index: the binary search, energy a rational              *)
(***************************************************************************)
\* the binary search comparing with > instead of >=
RECURSIVE find_loop_strict(_, _, _)
find_loop_strict(energy, min, max) ==
    LET mid == (min + max) \div 2
        min2 == IF RatGt(energy, Rat(histogram_energy_boundaries[mid], 1)) THEN mid ELSE min
        max2 == IF RatGt(energy, Rat(histogram_energy_boundaries[mid], 1)) THEN max ELSE mid
    IN  IF max2 - min2 = 1 THEN min2 ELSE find_loop_strict(energy, min2, max2)

RECURSIVE find_loop(_, _, _)
find_loop(energy, min, max) ==
    LET mid == (min + max) \div 2
        min2 == IF RatGe(energy, Rat(histogram_energy_boundaries[mid], 1)) THEN mid ELSE min
        max2 == IF RatGe(energy, Rat(histogram_energy_boundaries[mid], 1)) THEN max ELSE mid
    IN  IF max2 - min2 = 1 THEN min2 ELSE find_loop(energy, min2, max2)

find_histogram_index(energy) == find_loop(energy, 0, NumBuckets)

(***************************************************************************)
(* energy_to_loudness (crate::energy_to_loudness, 10*log10(e) - 0.691) and *)
(* the f64 results of the queries.  A loudness is kept symbolically: the   *)
(* energy it is the loudness of.                                           *)
(***************************************************************************)
NegInf == [kind |-> "neg_inf", h |-> Rat(0, 1), l |-> Rat(0, 1)]

NaN == [kind |-> "nan", h |-> Rat(0, 1), l |-> Rat(0, 1)]

PosInf == [kind |-> "pos_inf", h |-> Rat(0, 1), l |-> Rat(0, 1)]

\* the literal 0.0
Zero == [kind |-> "zero", h |-> Rat(0, 1), l |-> Rat(0, 1)]

\* the literal -70.0
MinusSeventy == [kind |-> "minus_seventy", h |-> Rat(0, 1), l |-> Rat(0, 1)]

\* Err(()) of loudness_range_multiple
Err == [kind |-> "err", h |-> Rat(0, 1), l |-> Rat(0, 1)]

\* an index out of bounds: the Rust code panics
Panic == [kind |-> "panic", h |-> Rat(0, 1), l |-> Rat(0, 1)]

\* no query has run
NoRes == [kind |-> "none", h |-> Rat(0, 1), l |-> Rat(0, 1)]

\* log10(0) = -inf, log10 of a negative number = NaN
energy_to_loudness(e) ==
    IF e[1] = 0 THEN NegInf
    ELSE IF e[1] < 0 THEN NaN
    ELSE [kind |-> "loudness", h |-> e, l |-> Rat(1, 1)]

\* energy_to_loudness(h_en) - energy_to_loudness(l_en) in f64
loudness_difference(h_en, l_en) ==
    LET a == energy_to_loudness(h_en)
        b == energy_to_loudness(l_en)
    IN  IF a.kind = "nan" \/ b.kind = "nan" THEN NaN
        ELSE IF a.kind = "neg_inf" /\ b.kind = "neg_inf" THEN NaN
        ELSE IF a.kind = "neg_inf" THEN NegInf
        ELSE IF b.kind = "neg_inf" THEN PosInf
        ELSE [kind |-> "lu", h |-> h_en, l |-> l_en]

(***************************************************************************)
(* Histogram: 1000 (here NumBuckets) counters                              *)
(***************************************************************************)
Buckets == 0..(NumBuckets - 1)

\* sum of f[i] for i in from..(NumBuckets - 1)
RECURSIVE SumFrom(_, _)
SumFrom(f, from) == IF from >= NumBuckets THEN 0 ELSE f[from] + SumFrom(f, from + 1)

Histogram_new == [i \in Buckets |-> 0]

\* Histogram::add counting one bucket too high
Histogram_add_next_bucket(h, energy) ==
    LET idx == find_histogram_index(Rat(energy, 1))
    IN  [h EXCEPT ![IF idx + 1 < NumBuckets THEN idx + 1 ELSE idx] = @ + 1]

Histogram_add(h, energy) ==
    LET idx == find_histogram_index(Rat(energy, 1))
    IN  [h EXCEPT ![idx] = @ + 1]

\* (above_thresh_counter, relative_threshold)
Histogram_calc_relative_threshold(h) ==
    <<SumFrom(h, 0), SumFrom([i \in Buckets |-> h[i] * histogram_energies[i]], 0)>>

\* ((size - 1) as f64 * 0.1 + 0.5) as u64
percentile_low(size) == ((size - 1) * 10 + 50) \div 100

\* ((size - 1) as f64 * 0.95 + 0.5) as u64
percentile_high(size) == ((size - 1) * 95 + 50) \div 100

\* while size <= percentile { size += h[j]; j += 1 }: the final <<j, size>>;
\* an access h[NumBuckets] panics, reported as j = NumBuckets + 1
RECURSIVE walk(_, _, _, _)
walk(h, j, size, percentile) ==
    IF size > percentile THEN <<j, size>>
    ELSE IF j >= NumBuckets THEN <<NumBuckets + 1, size>>
    ELSE walk(h, j + 1, size + h[j], percentile)

\* the gate index without the round-up to the first qualifying bucket
gate_index_floor(threshold) ==
    IF RatLt(threshold, Rat(histogram_energy_boundaries[0], 1)) THEN 0
    ELSE find_histogram_index(threshold)

\* the gate index shared by Histogram::loudness_range and
\* gated_loudness_multiple: the first bucket whose energy is >= threshold
gate_index(threshold) ==
    IF RatLt(threshold, Rat(histogram_energy_boundaries[0], 1)) THEN 0
    ELSE LET index == find_histogram_index(threshold)
         IN  IF RatGt(threshold, Rat(histogram_energies[index], 1))
             THEN index + 1 ELSE index

\* the two energies Histogram::loudness_range picks, as <<kind, l_en, h_en>>
Histogram_range_energies(h) ==
    LET size0 == SumFrom(h, 0)
        power == SumFrom([i \in Buckets |-> h[i] * histogram_energies[i]], 0)
    IN  IF size0 = 0 THEN <<"zero", 0, 0>>
        ELSE LET integrated == Rat(power, size0 * 100)
                 index == gate_index(integrated)
                 size == SumFrom(h, index)
             IN  IF size = 0 THEN <<"zero", 0, 0>>
                 ELSE LET lo == walk(h, index, 0, percentile_low(size))
                          hi == walk(h, lo[1], lo[2], percentile_high(size))
                      IN  IF lo[1] > NumBuckets \/ hi[1] > NumBuckets \/ lo[1] = 0
                          THEN <<"panic", 0, 0>>
                          ELSE <<"diff", histogram_energies[lo[1] - 1],
                                         histogram_energies[hi[1] - 1]>>

Histogram_loudness_range(h) ==
    LET r == Histogram_range_energies(h)
    IN  IF r[1] = "zero" THEN Zero
        ELSE IF r[1] = "panic" THEN Panic
        ELSE loudness_difference(Rat(r[3], 1), Rat(r[2], 1))

(***************************************************************************)
(* Queue: VecDeque<f64> and max                                            *)
(***************************************************************************)
RECURSIVE SumSeq(_)
SumSeq(q) == IF q = <<>> THEN 0 ELSE Head(q) + SumSeq(Tail(q))

\* VecDeque::resize(n, 0.0) on a queue shorter than n
RECURSIVE resize(_, _)
resize(q, n) == IF Len(q) >= n THEN q ELSE resize(Append(q, 0), n)

Queue_new(max) == [queue |-> <<>>, max |-> max]

Queue_add(q, energy) ==
    LET popped == IF q.max = Len(q.queue)
                  THEN (IF q.queue = <<>> THEN <<>> ELSE Tail(q.queue))
                  ELSE q.queue
    IN  [q EXCEPT !.queue = Append(popped, energy)]

\* Queue::set_max_size that only stores the new max
Queue_set_max_size_unpadded(q, max) == [queue |-> q.queue, max |-> max]

Queue_set_max_size(q, max) ==
    [queue |-> IF Len(q.queue) < max THEN resize(q.queue, max) ELSE q.queue,
     max |-> max]

Queue_calc_relative_threshold(q) == <<Len(q.queue), SumSeq(q.queue)>>

\* number of leading elements of q (from position i on) below integrated
RECURSIVE relgated_count(_, _, _)
relgated_count(q, i, integrated) ==
    IF i <= Len(q) /\ RatLt(Rat(q[i], 1), integrated)
    THEN 1 + relgated_count(q, i + 1, integrated)
    ELSE 0

\* the two energies Queue::loudness_range picks from the sorted slice q
Queue_range_energies(q) ==
    IF q = <<>> THEN <<"zero", 0, 0>>
    ELSE LET integrated == Rat(SumSeq(q), Len(q) * 100)
             relgated == relgated_count(q, 1, integrated)
             relgated_size == Len(q) - relgated
         IN  IF relgated_size > 0
             THEN <<"diff", q[relgated + percentile_low(relgated_size) + 1],
                            q[relgated + percentile_high(relgated_size) + 1]>>
             ELSE <<"zero", 0, 0>>

Queue_loudness_range(q) ==
    LET r == Queue_range_energies(q)
    IN  IF r[1] = "zero" THEN Zero
        ELSE loudness_difference(Rat(r[3], 1), Rat(r[2], 1))

\* combined.sort_unstable_by(partial_cmp): ascending insertion sort
RECURSIVE insert(_, _)
insert(x, q) ==
    IF q = <<>> THEN <<x>>
    ELSE IF x <= Head(q) THEN <<x>> \o q
    ELSE <<Head(q)>> \o insert(x, Tail(q))

RECURSIVE sort(_)
sort(q) == IF q = <<>> THEN <<>> ELSE insert(Head(q), sort(Tail(q)))

(***************************************************************************)
(* History: the tagged union and its dispatch                              *)
(***************************************************************************)
History_new(use_histogram, max) ==
    IF use_histogram
    THEN [tag |-> "Histogram", h |-> Histogram_new]
    ELSE [tag |-> "Queue", q |-> Queue_new(max)]

\* History::add without the silence gate
History_add_ungated(hist, energy) ==
    IF hist.tag = "Histogram"
    THEN [hist EXCEPT !.h = Histogram_add(@, energy)]
    ELSE [hist EXCEPT !.q = Queue_add(@, energy)]

History_add(hist, energy) ==
    IF energy < histogram_energy_boundaries[0] THEN hist
    ELSE IF hist.tag = "Histogram"
         THEN [hist EXCEPT !.h = Histogram_add(@, energy)]
         ELSE [hist EXCEPT !.q = Queue_add(@, energy)]

History_set_max_size(hist, max) ==
    IF hist.tag = "Histogram" THEN hist
    ELSE [hist EXCEPT !.q = Queue_set_max_size(@, max)]

History_calc_relative_threshold(hist) ==
    IF hist.tag = "Histogram"
    THEN Histogram_calc_relative_threshold(hist.h)
    ELSE Queue_calc_relative_threshold(hist.q)

\* the fold of pass 1: <<above_thresh_counter, relative_threshold>>
RECURSIVE pass1(_)
pass1(list) ==
    IF list = <<>> THEN <<0, 0>>
    ELSE LET acc == pass1(SubSeq(list, 1, Len(list) - 1))
             one == History_calc_relative_threshold(list[Len(list)])
         IN  <<acc[1] + one[1], acc[2] + one[2]>>

\* pass 2 over one queue: <<count, sum>> of the values >= relative_threshold
RECURSIVE queue_pass2(_, _)
queue_pass2(q, relative_threshold) ==
    IF q = <<>> THEN <<0, 0>>
    ELSE LET rest == queue_pass2(Tail(q), relative_threshold)
         IN  IF RatGe(Rat(Head(q), 1), relative_threshold)
             THEN <<rest[1] + 1, rest[2] + Head(q)>>
             ELSE rest

\* pass 2 over the list: <<above_thresh_counter, gated_loudness>>
RECURSIVE pass2(_, _, _)
pass2(list, start_index, relative_threshold) ==
    IF list = <<>> THEN <<0, 0>>
    ELSE LET acc == pass2(SubSeq(list, 1, Len(list) - 1), start_index, relative_threshold)
             hist == list[Len(list)]
             one == IF hist.tag = "Histogram"
                    THEN <<SumFrom(hist.h, start_index),
                           SumFrom([i \in Buckets |-> hist.h[i] * histogram_energies[i]],
                                   start_index)>>
                    ELSE queue_pass2(hist.q.queue, relative_threshold)
         IN  <<acc[1] + one[1], acc[2] + one[2]>>

History_gated_loudness_multiple(list) ==
    LET p1 == pass1(list)
    IN  IF p1[1] = 0 THEN NegInf
        ELSE LET relative_threshold == Rat(p1[2], p1[1] * 10)
                 start_index == gate_index(relative_threshold)
                 p2 == pass2(list, start_index, relative_threshold)
             IN  IF p2[1] = 0 THEN NegInf
                 ELSE energy_to_loudness(Rat(p2[2], p2[1]))

History_gated_loudness(hist) == History_gated_loudness_multiple(<<hist>>)

History_relative_threshold(hist) ==
    LET p1 == History_calc_relative_threshold(hist)
    IN  IF p1[1] = 0 THEN MinusSeventy
        ELSE energy_to_loudness(Rat(p1[2], p1[1] * 10))

\* counter-wise sum of the histograms of the list
RECURSIVE combine_histograms(_)
combine_histograms(list) ==
    IF list = <<>> THEN [i \in Buckets |-> 0]
    ELSE LET acc == combine_histograms(Tail(list))
         IN  [i \in Buckets |-> acc[i] + Head(list).h[i]]

\* concatenation of the queues of the list
RECURSIVE combine_queues(_)
combine_queues(list) ==
    IF list = <<>> THEN <<>>
    ELSE Head(list).q.queue \o combine_queues(Tail(list))

\* loudness_range_multiple that compares only the second instance's variant
\* with the first's
History_loudness_range_multiple_second_only(list) ==
    IF list = <<>> THEN Zero
    ELSE IF list[1].tag = "Histogram"
         THEN IF Len(list) = 1 THEN Histogram_loudness_range(list[1].h)
              ELSE IF list[2].tag # "Histogram" THEN Err
              ELSE Histogram_loudness_range(
                       combine_histograms(SelectSeq(list, LAMBDA x : x.tag = "Histogram")))
         ELSE IF Len(list) > 1 /\ list[2].tag # "Queue" THEN Err
              ELSE Queue_loudness_range(
                       sort(combine_queues(SelectSeq(list, LAMBDA x : x.tag = "Queue"))))

History_loudness_range_multiple(list) ==
    IF list = <<>> THEN Zero
    ELSE IF list[1].tag = "Histogram"
         THEN IF Len(list) = 1 THEN Histogram_loudness_range(list[1].h)
              ELSE IF \E k \in 1..Len(list) : list[k].tag # "Histogram" THEN Err
              ELSE Histogram_loudness_range(combine_histograms(list))
         ELSE IF \E k \in 1..Len(list) : list[k].tag # "Queue" THEN Err
              ELSE Queue_loudness_range(sort(combine_queues(list)))

\* loudness_range_multiple(&[self]).unwrap()
History_loudness_range(hist) ==
    LET r == History_loudness_range_multiple(<<hist>>)
    IN  IF r.kind = "err" THEN Panic ELSE r

(***************************************************************************)
(* The state machine.  s is a list of History instances, last the last     *)
(* call made and, for a query, its result; log is the sequence of energies *)
(* given to Queue::add in SpecFill.                                        *)
(***************************************************************************)
\* an energy above the last boundary
Top == 4 * histogram_energy_boundaries[NumBuckets]

\* the energies given to add: negative, below the floor, the floor itself,
\* inside the table, above the table
Energies == {-1, 1, histogram_energy_boundaries[0], 10, 500, Top}

Call(op, i, arg, res) == [op |-> op, i |-> i, arg |-> arg, res |-> res]

\* number of samples an instance holds
Size(hist) == IF hist.tag = "Histogram" THEN SumFrom(hist.h, 0) ELSE Len(hist.q.queue)

RECURSIVE TotalSize(_)
TotalSize(list) == IF list = <<>> THEN 0 ELSE Size(Head(list)) + TotalSize(Tail(list))

Init ==
    \E use_histogram \in BOOLEAN, max \in 0..MaxCap :
        /\ s = <<History_new(use_histogram, max)>>
        /\ last = Call("new", 1, max, NoRes)
        /\ log = <<>>
        /\ AfterFirstNew

Add(i, energy) ==
    /\ Size(s[i]) < MaxLen
    /\ s' = [s EXCEPT ![i] = History_add(@, energy)]
    /\ last' = Call("add", i, energy, NoRes)
    /\ UNCHANGED log
    /\ UNCHANGED shared

SetMaxSize(i, max) ==
    /\ s' = [s EXCEPT ![i] = History_set_max_size(@, max)]
    /\ last' = Call("set_max_size", i, max, NoRes)
    /\ UNCHANGED log
    /\ UNCHANGED shared

GatedLoudness(i) ==
    /\ last' = Call("gated_loudness", i, 0, History_gated_loudness(s[i]))
    /\ UNCHANGED <<s, log>>
    /\ UNCHANGED shared

RelativeThreshold(i) ==
    /\ last' = Call("relative_threshold", i, 0, History_relative_threshold(s[i]))
    /\ UNCHANGED <<s, log>>
    /\ UNCHANGED shared

LoudnessRange(i) ==
    /\ last' = Call("loudness_range", i, 0, History_loudness_range(s[i]))
    /\ UNCHANGED <<s, log>>
    /\ UNCHANGED shared

Next ==
    \/ \E i \in 1..Len(s), energy \in Energies : Add(i, energy)
    \/ \E i \in 1..Len(s), max \in 0..MaxCap : SetMaxSize(i, max)
    \/ \E i \in 1..Len(s) : GatedLoudness(i)
    \/ \E i \in 1..Len(s) : RelativeThreshold(i)
    \/ \E i \in 1..Len(s) : LoudnessRange(i)

Spec == Init /\ [][Next]_vars

(***************************************************************************)
(* Claims checked under Spec: one History, any sequence of calls           *)
(***************************************************************************)
Queues == {i \in 1..Len(s) : s[i].tag = "Queue"}

\* C1: in every reachable state of a Queue-backed History (any capacity,
\* any sequence of add and set_max_size), the queue's length is <= its max.
C1_LenWithinMax ==
    \A i \in Queues : Len(s[i].q.queue) <= s[i].q.max

\* C3: History::add of an energy below boundaries[0] leaves the whole
\* aggregator state (counters, or queue contents, length and max) unchanged.
C3_SubFloorAddIsNoOp ==
    [][(last'.op = "add" /\ last'.arg < histogram_energy_boundaries[0]) => s' = s]_vars

\* a sub-floor add has just been made on an instance that holds samples
C3_Witness ==
    /\ last.op = "add"
    /\ last.arg < histogram_energy_boundaries[0]
    /\ Size(s[last.i]) > 0

\* C4: every energy the queries aggregate over (every element of a Queue;
\* a Histogram's samples count at energies[i] >= boundaries[0]) is >=
\* boundaries[0].
C4_NoSubFloorSample ==
    \A i \in Queues : \A k \in 1..Len(s[i].q.queue) :
        s[i].q.queue[k] >= histogram_energy_boundaries[0]

\* the result is 0.0 or the difference of two finite loudnesses, high >= low
NonNegativeReal(res) ==
    \/ res.kind = "zero"
    \/ res.kind = "lu" /\ RatGe(res.h, res.l)

\* C7: loudness_range() of every reachable History returns a non-negative
\* real number (the 95th-percentile energy is never below the
\* 10th-percentile energy; the result is their loudness difference or 0.0).
C7_RangeNonNegative ==
    last.op = "loudness_range" => NonNegativeReal(last.res)

\* C8: set_max_size(m) on a Queue of length < m leaves length m and max m,
\* the old elements in order at the front, then m - (old length) zeros.
C8_GrowPadsZeros ==
    [][\A i \in Queues :
          (/\ last'.op = "set_max_size"
           /\ last'.i = i
           /\ Len(s[i].q.queue) < last'.arg)
          => (/\ s'[i].q.max = last'.arg
              /\ Len(s'[i].q.queue) = last'.arg
              /\ SubSeq(s'[i].q.queue, 1, Len(s[i].q.queue)) = s[i].q.queue
              /\ \A k \in (Len(s[i].q.queue) + 1)..last'.arg : s'[i].q.queue[k] = 0)]_vars

\* set_max_size has just grown a queue that held a real sample
C8_Witness ==
    /\ last.op = "set_max_size"
    /\ s[last.i].tag = "Queue"
    /\ Len(s[last.i].q.queue) = last.arg
    /\ s[last.i].q.max = last.arg
    /\ last.arg >= 2
    /\ s[last.i].q.queue[1] >= histogram_energy_boundaries[0]
    /\ s[last.i].q.queue[last.arg] = 0

\* C10: after set_max_size(m) on a Queue longer than m the contents are
\* unchanged, and while the length exceeds max an accepted add does not
\* increase the length.  (A queue longer than a max > 0 has had such a
\* set_max_size: every other call on a queue with max > 0 keeps
\* length <= max.)
C10_ShrinkKeepsThenEvicts ==
    [][\A i \in Queues :
          /\ (/\ last'.op = "set_max_size"
              /\ last'.i = i
              /\ Len(s[i].q.queue) > last'.arg)
             => s'[i].q.queue = s[i].q.queue
          /\ (/\ last'.op = "add"
              /\ last'.i = i
              /\ last'.arg >= histogram_energy_boundaries[0]
              /\ s[i].q.max > 0
              /\ Len(s[i].q.queue) > s[i].q.max)
             => Len(s'[i].q.queue) <= Len(s[i].q.queue)]_vars

(***************************************************************************)
(* SpecFill: a newly constructed Queue filled by Queue::add alone; log is  *)
(* the sequence of energies added so far.                                  *)
(***************************************************************************)
InitFill ==
    \E max \in 0..MaxCap :
        /\ s = <<History_new(FALSE, max)>>
        /\ last = Call("new", 1, max, NoRes)
        /\ log = <<>>
        /\ AfterFirstNew

QueueAdd(energy) ==
    /\ Len(log) < MaxLen
    /\ s' = [s EXCEPT ![1].q = Queue_add(@, energy)]
    /\ last' = Call("add", 1, energy, NoRes)
    /\ log' = Append(log, energy)
    /\ UNCHANGED shared

\* the energies History::add lets through to Queue::add
AcceptedEnergies == {e \in Energies : e >= histogram_energy_boundaries[0]}

NextFill == \E energy \in AcceptedEnergies : QueueAdd(energy)

SpecFill == InitFill /\ [][NextFill]_vars

Min(a, b) == IF a <= b THEN a ELSE b

\* the last n elements of q
LastN(q, n) == SubSeq(q, Len(q) - n + 1, Len(q))

\* C2: after n energies are added to a new Queue of any capacity max, the
\* queue holds exactly the last min(n, max) of them, in arrival order.
C2_HoldsLastMin ==
    s[1].q.queue = LastN(log, Min(Len(log), s[1].q.max))

(***************************************************************************)
(* SpecMulti: a list of History instances of either variant, built by      *)
(* History::new, add and set_max_size, and the queries over the whole list *)
(***************************************************************************)
\* the mutating calls of SpecMulti are not recorded in last
Quiet == Call("none", 0, 0, NoRes)

InitMulti ==
    /\ s = <<>>
    /\ last = Quiet
    /\ log = <<>>
    /\ Uninitialized

Weight(list) == Len(list) + TotalSize(list)

Step(next) ==
    /\ Weight(next) <= MaxWeight
    /\ s' = next
    /\ last' = Quiet
    /\ UNCHANGED log

New(use_histogram, max) ==
    /\ Step(Append(s, History_new(use_histogram, max)))
    /\ init_histogram_alone

AddMulti(i, energy) ==
    /\ Step([s EXCEPT ![i] = History_add(@, energy)])
    /\ UNCHANGED shared

SetMaxSizeMulti(i, max) ==
    /\ Step([s EXCEPT ![i] = History_set_max_size(@, max)])
    /\ UNCHANGED shared

GatedLoudnessMultiple ==
    /\ last' = Call("gated_loudness_multiple", 0, 0, History_gated_loudness_multiple(s))
    /\ UNCHANGED <<s, log>>
    /\ UNCHANGED shared

LoudnessRangeMultiple ==
    /\ last' = Call("loudness_range_multiple", 0, 0, History_loudness_range_multiple(s))
    /\ UNCHANGED <<s, log>>
    /\ UNCHANGED shared

NextMulti ==
    \/ \E use_histogram \in BOOLEAN, max \in 0..MaxCap : New(use_histogram, max)
    \/ \E i \in 1..Len(s), energy \in Energies : AddMulti(i, energy)
    \/ \E i \in 1..Len(s), max \in 0..MaxCap : SetMaxSizeMulti(i, max)
    \/ GatedLoudnessMultiple
    \/ LoudnessRangeMultiple

SpecMulti == InitMulti /\ [][NextMulti]_vars

\* the list holds instances of both variants
Mixed(list) ==
    /\ \E k \in 1..Len(list) : list[k].tag = "Histogram"
    /\ \E k \in 1..Len(list) : list[k].tag = "Queue"

\* Ok(x) for some f64 x
IsOk(res) == res.kind \in {"zero", "lu", "nan", "neg_inf", "pos_inf"}

\* C5: loudness_range_multiple returns the VariantMismatch error exactly
\* when the list holds both a Histogram-backed and a Queue-backed instance,
\* wherever the odd instance stands, and Ok otherwise; the empty list
\* gives Ok(0.0).
C5_MismatchIffMixed ==
    last.op = "loudness_range_multiple" =>
        /\ last.res = Err <=> Mixed(s)
        /\ ~Mixed(s) => IsOk(last.res)
        /\ s = <<>> => last.res = Zero

\* the odd instance is the last of three
C5_Witness ==
    /\ last.op = "loudness_range_multiple"
    /\ Len(s) = 3
    /\ s[1].tag = s[2].tag
    /\ s[3].tag # s[1].tag
    /\ last.res = Err

RECURSIVE SetSum(_, _)
SetSum(S, f) ==
    IF S = {} THEN 0
    ELSE LET x == CHOOSE y \in S : TRUE
         IN  f[x] + SetSum(S \ {x}, f)

\* the samples of one instance whose energy is >= threshold: <<count, sum>>,
\* a Histogram's samples taken at their bucket's representative energy
Qualifying(hist, threshold) ==
    IF hist.tag = "Histogram"
    THEN LET B == {i \in Buckets : RatGe(Rat(histogram_energies[i], 1), threshold)}
         IN  <<SetSum(B, hist.h),
               SetSum(B, [i \in Buckets |-> hist.h[i] * histogram_energies[i]])>>
    ELSE LET J == {j \in 1..Len(hist.q.queue) : RatGe(Rat(hist.q.queue[j], 1), threshold)}
         IN  <<Cardinality(J), SetSum(J, hist.q.queue)>>

\* all samples of one instance: <<count, sum>>
AllSamples(hist) ==
    IF hist.tag = "Histogram"
    THEN <<SetSum(Buckets, hist.h),
           SetSum(Buckets, [i \in Buckets |-> hist.h[i] * histogram_energies[i]])>>
    ELSE <<Len(hist.q.queue), SetSum(1..Len(hist.q.queue), hist.q.queue)>>

\* what C6 says gated_loudness_multiple returns for the list
GatedLoudnessAsClaimed(list) ==
    LET K == 1..Len(list)
        n == SetSum(K, [k \in K |-> AllSamples(list[k])[1]])
        total == SetSum(K, [k \in K |-> AllSamples(list[k])[2]])
    IN  IF n = 0 THEN NegInf
        ELSE LET threshold == Rat(total, n * 10)
                 qn == SetSum(K, [k \in K |-> Qualifying(list[k], threshold)[1]])
                 qsum == SetSum(K, [k \in K |-> Qualifying(list[k], threshold)[2]])
             IN  IF qn = 0 THEN NegInf
                 ELSE energy_to_loudness(Rat(qsum, qn))

\* C6: gated_loudness_multiple over any list (any mix of variants) returns
\* negative infinity when there is no sample or none qualifies, and
\* otherwise loudness(mean) over exactly the samples whose energy (bucket
\* representative energy for a Histogram, raw value for a Queue) is >= one
\* tenth of the mean energy of all samples.
C6_GatedLoudnessIsGatedMean ==
    last.op = "gated_loudness_multiple" =>
        LET want == GatedLoudnessAsClaimed(s)
        IN  /\ last.res.kind = want.kind
            /\ RatEq(last.res.h, want.h)

\* a mixed list where the gate drops a sample and keeps another
C6_Witness ==
    /\ last.op = "gated_loudness_multiple"
    /\ Mixed(s)
    /\ last.res.kind = "loudness"
    /\ \E k \in 1..Len(s) :
          Qualifying(s[k], Rat(pass1(s)[2], pass1(s)[1] * 10))[1] < Size(s[k])

(***************************************************************************)
(* SpecPair: a Histogram-backed and a Queue-backed History fed the same    *)
(* sequence of energies through add, the Queue's capacity at least the     *)
(* sequence length; a query is made on both and last.res is the pair of    *)
(* results <<Histogram's, Queue's>>.                                       *)
(***************************************************************************)
InitPair ==
    \E max \in MaxLen..(MaxLen + 1) :
        /\ s = <<History_new(TRUE, max), History_new(FALSE, max)>>
        /\ last = Call("new", 0, max, NoRes)
        /\ log = <<>>
        /\ AfterFirstNew

AddBoth(energy) ==
    /\ Len(log) < MaxLen
    /\ s' = <<History_add(s[1], energy), History_add(s[2], energy)>>
    /\ last' = Call("add", 0, energy, NoRes)
    /\ log' = Append(log, energy)
    /\ UNCHANGED shared

GatedLoudnessBoth ==
    /\ last' = Call("pair_gated_loudness", 0, 0,
                    <<History_gated_loudness(s[1]), History_gated_loudness(s[2])>>)
    /\ UNCHANGED <<s, log>>
    /\ UNCHANGED shared

RelativeThresholdBoth ==
    /\ last' = Call("pair_relative_threshold", 0, 0,
                    <<History_relative_threshold(s[1]), History_relative_threshold(s[2])>>)
    /\ UNCHANGED <<s, log>>
    /\ UNCHANGED shared

LoudnessRangeBoth ==
    /\ last' = Call("pair_loudness_range", 0, 0,
                    <<History_loudness_range(s[1]), History_loudness_range(s[2])>>)
    /\ UNCHANGED <<s, log>>
    /\ UNCHANGED shared

NextPair ==
    \/ \E energy \in Energies : AddBoth(energy)
    \/ GatedLoudnessBoth
    \/ RelativeThresholdBoth
    \/ LoudnessRangeBoth

SpecPair == InitPair /\ [][NextPair]_vars

\* the width of one bucket as an energy ratio: boundaries[i+1] / boundaries[i]
BucketStep == histogram_energy_boundaries[1] \div histogram_energy_boundaries[0]

\* rationals a, b > 0 differ by at most one bucket width
RatWithinBucket(a, b) ==
    /\ a[1] * b[2] <= BucketStep * b[1] * a[2]
    /\ b[1] * a[2] <= BucketStep * a[1] * b[2]

\* the energy ratio a loudness-range result stands for
RangeRatio(res) ==
    IF res.kind = "zero" THEN Rat(1, 1)
    ELSE Rat(res.h[1] * res.l[2], res.h[2] * res.l[1])

\* two results of the same query differ by at most one bucket width
WithinBucket(a, b) ==
    IF a.kind \in {"zero", "lu"} /\ b.kind \in {"zero", "lu"}
    THEN RatWithinBucket(RangeRatio(a), RangeRatio(b))
    ELSE IF a.kind = "loudness" /\ b.kind = "loudness"
    THEN RatWithinBucket(a.h, b.h)
    ELSE a.kind = b.kind /\ a.kind \in {"neg_inf", "minus_seventy"}

\* mean energy of an instance times num / den (0 when it is empty)
ScaledMean(hist, den) ==
    LET p1 == History_calc_relative_threshold(hist)
    IN  IF p1[1] = 0 THEN Rat(0, 1) ELSE Rat(p1[2], p1[1] * den)

\* every sample passes the gate at mean / den in both instances or in
\* neither: the Queue keeps its raw value v iff v >= threshold, the
\* Histogram keeps its bucket iff the bucket is at or above the gate index
SameGate(den) ==
    \A j \in 1..Len(s[2].q.queue) :
        LET v == s[2].q.queue[j]
        IN  RatGe(Rat(v, 1), ScaledMean(s[2], den))
            <=> find_histogram_index(Rat(v, 1)) >= gate_index(ScaledMean(s[1], den))

\* every energy fed so far that add accepted lies inside the table
InTable ==
    \A j \in 1..Len(log) : log[j] < histogram_energy_boundaries[NumBuckets]

IsPairQuery == last.op \in {"pair_gated_loudness", "pair_relative_threshold",
                            "pair_loudness_range"}

\* C9 as stated: fed the same energies, the two variants give
\* gated_loudness, relative_threshold and loudness_range within one bucket
\* width of each other, and apply both gates to the same set of samples
\* (and so select the same percentile ranks).
C9_PairWithinQuantization ==
    IsPairQuery =>
        /\ WithinBucket(last.res[1], last.res[2])
        /\ SameGate(10)
        /\ SameGate(100)

\* C9 as amended: with every energy below the last boundary, both hold the
\* same number of samples, relative_threshold agrees within one bucket
\* width, gated_loudness does when the relative gate (mean / 10) passes the
\* same samples in both, and loudness_range does when the -20 dB gate
\* (mean / 100) passes the same samples in both.
C9_PairWithinQuantizationInTable ==
    (IsPairQuery /\ InTable) =>
        /\ Size(s[1]) = Size(s[2])
        /\ last.op = "pair_relative_threshold"
               => WithinBucket(last.res[1], last.res[2])
        /\ (last.op = "pair_gated_loudness" /\ SameGate(10))
               => WithinBucket(last.res[1], last.res[2])
        /\ (last.op = "pair_loudness_range" /\ SameGate(100))
               => WithinBucket(last.res[1], last.res[2])

\* both variants report a non-zero range over in-table samples that pass
\* the same gate
C9_Witness ==
    /\ last.op = "pair_loudness_range"
    /\ InTable
    /\ SameGate(100)
    /\ Len(s[2].q.queue) >= 2
    /\ last.res[1].kind = "lu"
    /\ last.res[2].kind = "lu"
    /\ RatGt(last.res[1].h, last.res[1].l)

(***************************************************************************)
(* SpecFind: one energy given to History::add on an empty Histogram-backed *)
(* History; the bucket counted is the index find_histogram_index returned. *)
(***************************************************************************)
\* every integer energy from below the floor up to the last-but-one inner
\* boundary, the energies at and next to every boundary, and one far above
\* the last boundary
FindEnergies ==
    (-1)..(histogram_energy_boundaries[NumBuckets - 2] + 2)
        \cup UNION {{histogram_energy_boundaries[i] - 1,
                     histogram_energy_boundaries[i],
                     histogram_energy_boundaries[i] + 1} : i \in 0..NumBuckets}
        \cup {Top}

InitFind ==
    /\ s = <<History_new(TRUE, 0)>>
    /\ last = Call("new", 1, 0, NoRes)
    /\ log = <<>>
    /\ AfterFirstNew

AddFirst(energy) ==
    /\ Size(s[1]) = 0
    /\ s' = [s EXCEPT ![1] = History_add(@, energy)]
    /\ last' = Call("add", 1, energy, NoRes)
    /\ UNCHANGED log
    /\ UNCHANGED shared

NextFind == \E energy \in FindEnergies : AddFirst(energy)

SpecFind == InitFind /\ [][NextFind]_vars

\* the accepted energy of the last add was counted in bucket i alone
CountedIn(i) ==
    /\ s[1].h[i] = 1
    /\ \A k \in Buckets \ {i} : s[1].h[k] = 0

AcceptedAdd == last.op = "add" /\ last.arg >= histogram_energy_boundaries[0]

\* C11 as stated: for every energy >= boundaries[0] that History::add
\* passes to the Histogram, find_histogram_index returns the unique index i
\* in [0, 999] with boundaries[i] <= energy < boundaries[i+1], energies at
\* or above the last boundary included.
C11_IndexBracketsEnergy ==
    AcceptedAdd =>
        \E i \in Buckets :
            /\ CountedIn(i)
            /\ histogram_energy_boundaries[i] <= last.arg
            /\ last.arg < histogram_energy_boundaries[i + 1]

\* C11 as amended: the index returned is the unique i with
\* boundaries[i] <= energy < boundaries[i+1] for an energy below the last
\* boundary, and the last index, 999, for an energy at or above it.
C11_IndexBracketsOrClamps ==
    AcceptedAdd =>
        \E i \in Buckets :
            /\ CountedIn(i)
            /\ histogram_energy_boundaries[i] <= last.arg
            /\ \/ last.arg < histogram_energy_boundaries[i + 1]
               \/ /\ i = NumBuckets - 1
                  /\ last.arg >= histogram_energy_boundaries[NumBuckets]

\* an energy at or above the last boundary has been counted in the last
\* bucket
C11_Witness ==
    /\ AcceptedAdd
    /\ last.arg >= histogram_energy_boundaries[NumBuckets]
    /\ CountedIn(NumBuckets - 1)

(***************************************************************************)
(* SpecInit: NumThreads threads calling History::new concurrently.  ONCE   *)
(* is std::sync::Once: the first caller of call_once runs the closure, a   *)
(* caller arriving while it runs blocks until it has completed, a caller   *)
(* arriving afterwards returns at once.  The closure writes one table      *)
(* entry per step.  A thread that owns a History may use it (every         *)
(* operation of a Histogram reads the tables) or send it to another thread.*)
(***************************************************************************)
InitThreads ==
    /\ s = <<>>
    /\ last = Quiet
    /\ log = <<>>
    /\ Uninitialized

\* History::new entered: init_histogram is the first statement
CallNew(t) ==
    /\ thread[t].pc = "idle"
    /\ thread' = [thread EXCEPT ![t].pc = "init_histogram"]
    /\ UNCHANGED <<s, last, log, ONCE, HISTOGRAM_ENERGIES, HISTOGRAM_ENERGY_BOUNDARIES, runs>>

\* a call_once that runs the closure whenever ONCE is not complete, without
\* regard to a closure already running
call_once_unsynchronised(t) ==
    /\ thread[t].pc = "init_histogram"
    /\ \/ /\ ONCE # "complete"
          /\ ONCE' = "running"
          /\ runs' = runs + 1
          /\ thread' = [thread EXCEPT ![t].pc = "energies", ![t].i = 0]
       \/ /\ ONCE = "complete"
          /\ thread' = [thread EXCEPT ![t].pc = "new"]
          /\ UNCHANGED <<ONCE, runs>>
    /\ UNCHANGED <<s, last, log, HISTOGRAM_ENERGIES, HISTOGRAM_ENERGY_BOUNDARIES>>

\* ONCE.call_once(closure)
call_once(t) ==
    /\ thread[t].pc = "init_histogram"
    /\ \/ /\ ONCE = "incomplete"
          /\ ONCE' = "running"
          /\ runs' = runs + 1
          /\ thread' = [thread EXCEPT ![t].pc = "energies", ![t].i = 0]
       \/ /\ ONCE = "running"
          /\ thread' = [thread EXCEPT ![t].pc = "blocked", ![t].waited = TRUE]
          /\ UNCHANGED <<ONCE, runs>>
       \/ /\ ONCE = "complete"
          /\ thread' = [thread EXCEPT ![t].pc = "new"]
          /\ UNCHANGED <<ONCE, runs>>
    /\ UNCHANGED <<s, last, log, HISTOGRAM_ENERGIES, HISTOGRAM_ENERGY_BOUNDARIES>>

\* one iteration of the loop over HISTOGRAM_ENERGIES
WriteEnergy(t) ==
    /\ thread[t].pc = "energies"
    /\ HISTOGRAM_ENERGIES' =
           [HISTOGRAM_ENERGIES EXCEPT ![thread[t].i] = histogram_energies[thread[t].i]]
    /\ thread' = IF thread[t].i + 1 = NumBuckets
                 THEN [thread EXCEPT ![t].pc = "boundaries", ![t].i = 0]
                 ELSE [thread EXCEPT ![t].i = @ + 1]
    /\ UNCHANGED <<s, last, log, ONCE, HISTOGRAM_ENERGY_BOUNDARIES, runs>>

\* one iteration of the loop over HISTOGRAM_ENERGY_BOUNDARIES; after the
\* last one the closure returns and ONCE becomes complete
WriteBoundary(t) ==
    /\ thread[t].pc = "boundaries"
    /\ HISTOGRAM_ENERGY_BOUNDARIES' =
           [HISTOGRAM_ENERGY_BOUNDARIES EXCEPT
               ![thread[t].i] = histogram_energy_boundaries[thread[t].i]]
    /\ IF thread[t].i = NumBuckets
       THEN /\ thread' = [thread EXCEPT ![t].pc = "new", ![t].i = 0]
            /\ ONCE' = "complete"
       ELSE /\ thread' = [thread EXCEPT ![t].i = @ + 1]
            /\ UNCHANGED ONCE
    /\ UNCHANGED <<s, last, log, HISTOGRAM_ENERGIES, runs>>

\* a caller blocked in call_once returns once the closure has completed
Wake(t) ==
    /\ thread[t].pc = "blocked"
    /\ ONCE = "complete"
    /\ thread' = [thread EXCEPT ![t].pc = "new"]
    /\ UNCHANGED <<s, last, log, ONCE, HISTOGRAM_ENERGIES, HISTOGRAM_ENERGY_BOUNDARIES, runs>>

\* the rest of History::new: the History is built and returned
Construct(t) ==
    /\ thread[t].pc = "new"
    /\ thread' = [thread EXCEPT ![t].pc = "idle", ![t].has = TRUE]
    /\ UNCHANGED <<s, last, log, ONCE, HISTOGRAM_ENERGIES, HISTOGRAM_ENERGY_BOUNDARIES, runs>>

\* add, gated_loudness, relative_threshold or loudness_range on a History
\* the thread owns: the tables are read through the 'static references.  A
\* read that meets an unfinished closure races with its writes and may see
\* any mixture of old and new entries.
Use(t) ==
    /\ thread[t].pc = "idle"
    /\ thread[t].has
    /\ thread' = [thread EXCEPT ![t].read = IF Initialized THEN "full" ELSE "torn"]
    /\ UNCHANGED <<s, last, log, ONCE, HISTOGRAM_ENERGIES, HISTOGRAM_ENERGY_BOUNDARIES, runs>>

\* a History moved to another thread
Send(t, u) ==
    /\ t # u
    /\ thread[t].has
    /\ ~thread[u].has
    /\ thread' = [thread EXCEPT ![t].has = FALSE, ![u].has = TRUE]
    /\ UNCHANGED <<s, last, log, ONCE, HISTOGRAM_ENERGIES, HISTOGRAM_ENERGY_BOUNDARIES, runs>>

NextThreads ==
    \/ \E t \in Threads : CallNew(t)
    \/ \E t \in Threads : call_once(t)
    \/ \E t \in Threads : WriteEnergy(t)
    \/ \E t \in Threads : WriteBoundary(t)
    \/ \E t \in Threads : Wake(t)
    \/ \E t \in Threads : Construct(t)
    \/ \E t \in Threads : Use(t)
    \/ \E t, u \in Threads : Send(t, u)

SpecInit == InitThreads /\ [][NextThreads]_vars

\* the thread is inside the closure, writing a table
Filling(t) == thread[t].pc \in {"energies", "boundaries"}

\* the thread has returned from call_once, owns a History or has read the
\* tables
PastCallOnce(t) ==
    \/ thread[t].pc = "new"
    \/ thread[t].has
    \/ thread[t].read # "none"

\* C12: with any number of threads calling History::new concurrently the
\* closure that fills the two tables is entered at most once and by one
\* thread at a time; a thread is past call_once, owns a History or has read
\* the tables only when the closure has run once to completion and both
\* tables are fully written, so every read sees the full tables; and once
\* ONCE is complete no thread is writing and the tables keep their values.
C12_TablesFilledOnceBeforeUse ==
    /\ runs <= 1
    /\ Cardinality({t \in Threads : Filling(t)}) <= 1
    /\ \A t \in Threads :
        /\ Filling(t) => ONCE = "running"
        /\ thread[t].pc = "blocked" => ONCE # "incomplete"
        /\ PastCallOnce(t) => Initialized /\ runs = 1
        /\ thread[t].read \in {"none", "full"}
    /\ ONCE = "complete" => Initialized /\ \A t \in Threads : ~Filling(t)

\* a thread that called History::new while another thread was filling the
\* tables, and blocked, has since read the tables in full, the closure
\* having run once
C12_Witness ==
    /\ runs = 1
    /\ \E t \in Threads :
        /\ thread[t].waited
        /\ thread[t].read = "full"

====
